---------------------------- MODULE Spec2Model ----------------------------
(***************************************************************************)
(* llm-ensemble: a scatter-gather executor (RunLLM, src/llm_ensemble/      *)
(* run_llm.py) that runs one agent per configured model identifier in      *)
(* parallel graph nodes and aggregates their outputs, and a budgeted       *)
(* supervisor (Consensus, src/llm_ensemble/consensus.py) whose judge agent *)
(* calls the run_llms tool repeatedly under a ToolCallLimitMiddleware.     *)
(*                                                                         *)
(* Python strings that the code inspects character by character (model     *)
(* identifiers, ':' -> '_' sanitisation) are sequences of one-character    *)
(* strings.  Python dicts are sequences of <<key, value>> pairs in         *)
(* insertion order.  Python values of the default result are tuples whose  *)
(* first element names the Python type.                                    *)
(***************************************************************************)
EXTENDS Naturals, Sequences, FiniteSets, TLC

VARIABLES
    models,           \* RunLLM._models / Consensus.models: the configured list
    response_schema,  \* Consensus._response_schema
    run_limit,        \* ToolCallLimitMiddleware.run_limit
    rl,               \* the RunLLM object built by a direct caller
    rounds,           \* the graph invocations (rounds) in flight
    log,              \* history: the settled rounds of the direct caller
    pc,               \* where the Consensus object / its invoke call stands
    run_count,        \* middleware state run_tool_call_count["run_llms"]
    messages,         \* the judge agent's transcript, as turn kinds
    terminal,         \* how the judge agent's loop ended
    agent_out,        \* how self._agent.invoke ended (result dict or exception)
    ret,              \* what Consensus.invoke gave its caller
    dispatched,       \* history: run_llms executions started in this run
    exceeded_before,  \* history: an earlier invoke on this object ran out of budget
    trigger_tokens,   \* SummarizationMiddleware trigger=("tokens", n)
    keep_messages,    \* SummarizationMiddleware keep=("messages", k)
    before,           \* history: the transcript the latest before_model pass got
    changed           \* history: for each pass since the last new turn, whether
                      \* it replaced the transcript

vars == <<models, response_schema, run_limit, rl, rounds, log, pc,
          run_count, messages, terminal, agent_out, ret, dispatched,
          exceeded_before, trigger_tokens, keep_messages, before, changed>>

sumVars == <<trigger_tokens, keep_messages, before, changed>>

runVars == <<response_schema, run_limit, pc, run_count, messages, terminal,
             agent_out, ret, dispatched>>

-----------------------------------------------------------------------------
(* Bounds of the model *)

MaxModels == 3
MaxInvokes == 2
MaxRunLimit == 2
MaxCallsPerStep == 2
MaxTurns == 6
MaxTokens == 2
MaxTrigger == 5
MaxKeep == 3
MaxPasses == 2

-----------------------------------------------------------------------------
(* Model identifiers *)

id_ab == <<"a", ":", "b">>
id_a_b == <<"a", "_", "b">>
id_cd == <<"c", ":", "d">>
id_ef == <<"e", ":", "f">>

ModelIds == {id_ab, id_a_b, id_cd, id_ef}

RECURSIVE SeqsUpTo(_, _)
SeqsUpTo(S, n) ==
    IF n = 0 THEN {<<>>}
    ELSE LET shorter == SeqsUpTo(S, n - 1)
         IN  shorter \cup {Append(s, x) : s \in {t \in shorter : Len(t) = n - 1}, x \in S}

ModelLists == SeqsUpTo(ModelIds, MaxModels)

\* str.replace(":", "_")
Sanitize(model_name) ==
    [i \in DOMAIN model_name |-> IF model_name[i] = ":" THEN "_" ELSE model_name[i]]

-----------------------------------------------------------------------------
(* Python dict, insertion ordered *)

DictKeys(d) == {d[i][1] : i \in DOMAIN d}

DictHas(d, k) == k \in DictKeys(d)

DictIndex(d, k) == CHOOSE i \in DOMAIN d : d[i][1] = k

\* dict.get(k, default)
DictGet(d, k, default) == IF DictHas(d, k) THEN d[DictIndex(d, k)][2] ELSE default

\* d[k] = v
DictSet(d, k, v) ==
    IF DictHas(d, k)
    THEN [i \in DOMAIN d |-> IF d[i][1] = k THEN <<k, v>> ELSE d[i]]
    ELSE Append(d, <<k, v>>)

RECURSIVE DictOrFrom(_, _, _)
DictOrFrom(a, b, i) ==
    IF i > Len(b) THEN a
    ELSE DictOrFrom(DictSet(a, b[i][1], b[i][2]), b, i + 1)

\* operator.or_ on two dicts: a | b
or_(a, b) == DictOrFrom(a, b, 1)


-----------------------------------------------------------------------------
(* Python values handled by a model node *)

LF == "LF"

PyStr(chars) == <<"str", chars>>

PyList(items) == <<"list", items>>

\* a content block {'type': 'text', 'text': chars}
TextBlock(chars) == <<"dict", << <<"type", PyStr(<<"t", "e", "x", "t">>)>>,
                                 <<"text", PyStr(chars)>> >> >>

\* what agent.invoke(...)["messages"][-1].content can be
Contents == {PyStr(<<"x">>), PyList(<<TextBlock(<<"y">>)>>)}

\* a content block with no 'text' key: {'type': 'image'}
OtherBlock == <<"dict", << <<"type", PyStr(<<"i", "m", "g">>)>> >> >>

\* every shape of content: str | list[str | dict]
Shapes == Contents \cup {PyList(<<OtherBlock>>), PyList(<<PyStr(<<"h">>)>>), PyList(<<>>)}

\* run_llm.py 86: content[0].get(...) when content[0] is not a mapping
GetRaises(content) ==
    content[1] = "list" /\ Len(content[2]) > 0 /\ content[2][1][1] # "dict"

\* the text an f-string renders for a value
Format(v) == IF v[1] = "str" THEN v[2] ELSE <<"[", "]">>

\* run_llm.py 84-89: the flat text extracted from the content
OutputText(content) ==
    IF content[1] = "list" /\ Len(content[2]) > 0
    THEN DictGet(content[2][1][2], "text", PyStr(<<"r", "e", "p", "r">>))
    ELSE content

-----------------------------------------------------------------------------
(* RunLLM.__init__ and _build_graph *)

ProcessName == <<"p", "r", "o", "c", "e", "s", "s">>

\* the names handed to graph.add_node, in call order
NodeNames(ms) == [i \in 1..(Len(ms) + 1) |->
                    IF i <= Len(ms) THEN Sanitize(ms[i]) ELSE ProcessName]

\* graph.add_node refuses a name that is already a node of the graph
AddNodeRaises(ms) ==
    \E i, j \in DOMAIN NodeNames(ms) : i < j /\ NodeNames(ms)[i] = NodeNames(ms)[j]

\* graph.compile() refuses a graph with no edge out of START
CompileRaises(ms) == Len(ms) = 0

\* self._agents after the constructor's loop
RECURSIVE AgentsOf(_, _)
AgentsOf(ms, n) ==
    IF n = 0 THEN <<>> ELSE DictSet(AgentsOf(ms, n - 1), ms[n], <<"agent", ms[n]>>)

\* the object RunLLM(models=ms, ...) builds, or the error its constructor raises
RunLLMInit(ms) ==
    [st      |-> IF AddNodeRaises(ms) \/ CompileRaises(ms) THEN "ValueError" ELSE "ready",
     created |-> Len(ms),
     agents  |-> AgentsOf(ms, Len(ms))]

NoRunLLM == [st |-> "new", created |-> 0, agents |-> <<>>]

-----------------------------------------------------------------------------
(* One graph invocation: the model nodes in one superstep, then process *)

Pending == <<"pending">>
Raised == <<"raise">>
NoExc == <<"none">>

NewRound(ms) ==
    [st            |-> "running",
     task          |-> [i \in DOMAIN ms |-> "running"],
     outcome       |-> [i \in DOMAIN ms |-> Pending],
     model_outputs |-> <<>>,
     result        |-> <<>>,
     runs          |-> 0,
     exc           |-> NoExc]

\* a round whose RunLLM constructor raised inside the run_llms tool
FailedRound(ms, e) ==
    [NewRound(ms) EXCEPT !.st = "raised", !.exc = e]

\* the update a model node returns: {"model_outputs": {model_name: output_text}}
NodeUpdate(model_name, content) == << <<model_name, OutputText(content)>> >>

\* run_llm.py 109-112: one labelled entry per configured model, in list order
RECURSIVE Outputs(_, _, _)
Outputs(ms, model_outputs, n) ==
    IF n = 0 THEN <<>>
    ELSE Append(Outputs(ms, model_outputs, n - 1),
                <<ms[n], <<":", LF>>,
                  Format(DictGet(model_outputs, ms[n], PyStr(<<>>)))>>)

\* "\n\n".join(outputs), kept as a sequence of tokens
RECURSIVE Join(_, _)
Join(outputs, n) ==
    IF n = 0 THEN <<>>
    ELSE IF n = 1 THEN outputs[1]
    ELSE Join(outputs, n - 1) \o <<<<LF, LF>>>> \o outputs[n]

\* process_node labelling entries with the graph node name
RECURSIVE OutputsSanitized(_, _, _)
OutputsSanitized(ms, model_outputs, n) ==
    IF n = 0 THEN <<>>
    ELSE Append(OutputsSanitized(ms, model_outputs, n - 1),
                <<Sanitize(ms[n]), <<":", LF>>,
                  Format(DictGet(model_outputs, ms[n], PyStr(<<>>)))>>)

ProcessSanitized(ms, model_outputs) ==
    Join(OutputsSanitized(ms, model_outputs, Len(ms)), Len(ms))

\* process_node walking the state dict instead of the configured list
ProcessByArrival(ms, model_outputs) ==
    Join([i \in DOMAIN model_outputs |->
            <<model_outputs[i][1], <<":", LF>>, Format(model_outputs[i][2])>>],
         Len(model_outputs))

\* process_node: state["result"]
Process(ms, model_outputs) == Join(Outputs(ms, model_outputs, Len(ms)), Len(ms))

\* an exception e leaves model node i of round r, which had got `seen` from
\* its agent: nothing catches it, the graph invocation re-raises it, the
\* sibling tasks are abandoned (their updates are never applied) and process
\* never runs
RaiseInNode(r, i, e, seen) ==
    rounds' = [rounds EXCEPT
            ![r].task = [j \in DOMAIN @ |-> IF j = i THEN "raised" ELSE "abandoned"],
            ![r].outcome = [j \in DOMAIN @ |-> IF j = i THEN seen ELSE Pending],
            ![r].model_outputs = <<>>,
            ![r].st = "raised",
            ![r].exc = <<e>>]

\* model node i of round r gets content from its agent: it returns its update,
\* which is merged by the or_ reducer, or the extraction raises
NodeReturn(r, i, content) ==
    /\ r \in DOMAIN rounds
    /\ rounds[r].st = "running"
    /\ i \in DOMAIN rounds[r].task
    /\ rounds[r].task[i] = "running"
    /\ IF GetRaises(content)
       THEN RaiseInNode(r, i, "AttributeError", content)
       ELSE rounds' = [rounds EXCEPT
                ![r].task[i] = "done",
                ![r].outcome[i] = content,
                ![r].model_outputs = or_(@, NodeUpdate(models[i], content))]

\* agent.invoke raises inside model node i
NodeRaise(r, i) ==
    /\ r \in DOMAIN rounds
    /\ rounds[r].st = "running"
    /\ i \in DOMAIN rounds[r].task
    /\ rounds[r].task[i] = "running"
    /\ RaiseInNode(r, i, "ModelError", Raised)

\* the round once process has run: state["result"] is set
AfterProcess(ms, round) ==
    [round EXCEPT !.st = "done", !.runs = @ + 1,
                  !.result = Process(ms, round.model_outputs)]

\* process triggered by each model node's edge on its own, as soon as that
\* node has returned
ProcessNodeEager(r) ==
    /\ r \in DOMAIN rounds
    /\ rounds[r].st = "running"
    /\ \E i \in DOMAIN rounds[r].task : rounds[r].task[i] = "done"
    /\ rounds' = [rounds EXCEPT
            ![r].runs = @ + 1,
            ![r].result = Process(models, rounds[r].model_outputs),
            ![r].st = IF \A i \in DOMAIN rounds[r].task : rounds[r].task[i] = "done"
                      THEN "done" ELSE "running"]

\* the process node runs in the superstep after every model node returned
ProcessNode(r) ==
    /\ r \in DOMAIN rounds
    /\ rounds[r].st = "running"
    /\ \A i \in DOMAIN rounds[r].task : rounds[r].task[i] = "done"
    /\ rounds' = [rounds EXCEPT ![r] = AfterProcess(models, rounds[r])]

-----------------------------------------------------------------------------
(* Response schemas and the values Consensus.invoke hands back *)

\* response_schema=None
NoSchema == [kind |-> "None", fields |-> <<>>, has_annotations |-> FALSE,
             annotations |-> <<>>]

\* tests/test_consensus.py: class UserSchema(TypedDict)
UserSchema ==
    [kind |-> "TypedDict",
     fields |-> << <<"consensus", "bool">>, <<"final_answer", "str">>, <<"notes", "str">> >>,
     has_annotations |-> TRUE,
     annotations |-> << <<"consensus", "bool">>, <<"final_answer", "str">>, <<"notes", "str">> >>]

\* a TypedDict whose consensus field is text: agreed: bool, consensus: str, score: int
VerdictSchema ==
    [kind |-> "TypedDict",
     fields |-> << <<"agreed", "bool">>, <<"consensus", "str">>, <<"score", "int">> >>,
     has_annotations |-> TRUE,
     annotations |-> << <<"agreed", "bool">>, <<"consensus", "str">>, <<"score", "int">> >>]

\* class Base(BaseModel): consensus: bool;  class Derived(Base): notes: str
\* a class's __annotations__ holds the fields the class itself declares
DerivedSchema ==
    [kind |-> "BaseModel",
     fields |-> << <<"consensus", "bool">>, <<"notes", "str">> >>,
     has_annotations |-> TRUE,
     annotations |-> << <<"notes", "str">> >>]

\* a JSON-schema dict {"title": ..., "properties": {"answer": {"type": "string"}}}
JsonSchema ==
    [kind |-> "dict",
     fields |-> << <<"answer", "str">> >>,
     has_annotations |-> FALSE,
     annotations |-> <<>>]

Schemas == {UserSchema, VerdictSchema, DerivedSchema, JsonSchema}

PyNone == <<"NoneType">>
PyFalse == <<"bool", "False">>
PyTrue == <<"bool", "True">>
PyInt == <<"int", "0">>

NoReturn == [st |-> "pending", val |-> PyNone, exc |-> "none"]
Returns(v) == [st |-> "returned", val |-> v, exc |-> "none"]
Raises(e) == [st |-> "raised", val |-> PyNone, exc |-> e]

\* consensus.py 153-163: the default of one annotated key
DefaultValue(key, type_hint, e) ==
    IF key \in {"consensus", "consensus_reached"} THEN PyFalse
    ELSE IF type_hint = "bool" THEN PyFalse
    ELSE IF type_hint = "str" THEN PyStr(<<"Error occurred: ", e>>)
    ELSE PyNone

\* consensus.py 152-163: default_dict
DefaultDict(schema, e) ==
    IF schema.has_annotations
    THEN [i \in DOMAIN schema.annotations |->
            <<schema.annotations[i][1],
              DefaultValue(schema.annotations[i][1], schema.annotations[i][2], e)>>]
    ELSE <<>>

\* consensus.py 146-165: the except branch
OnException(schema, e) ==
    IF schema.kind # "None"
    THEN IF DefaultDict(schema, e) # <<>>
         THEN Returns(<<"dict", DefaultDict(schema, e)>>)
         ELSE Returns(PyNone)
    ELSE Returns(PyNone)

\* the agent's outcome: a result dict, or an exception
AgentReturned(result) == [raised |-> FALSE, exc |-> "none", result |-> result]
AgentRaised(e) == [raised |-> TRUE, exc |-> e, result |-> <<>>]
NoOutcome == [raised |-> FALSE, exc |-> "none", result |-> <<>>]

\* consensus.py 139-145: the try branch
TryBody(schema, outcome) ==
    IF outcome.raised THEN Raises(outcome.exc)
    ELSE IF schema.kind # "None"
         THEN IF DictHas(outcome.result, "structured_response")
              THEN Returns(DictGet(outcome.result, "structured_response", PyNone))
              ELSE Raises("KeyError")
         ELSE Returns(<<"result", outcome.result>>)

\* an except clause that names only the tool-call-limit error
ConsensusInvokeNarrowCatch(schema, outcome) ==
    IF TryBody(schema, outcome).st = "raised"
       /\ TryBody(schema, outcome).exc = "ToolCallLimitExceededError"
    THEN OnException(schema, TryBody(schema, outcome).exc)
    ELSE TryBody(schema, outcome)

\* the whole result handed back whether or not a schema is configured
ConsensusInvokeWholeResult(schema, outcome) ==
    IF outcome.raised THEN OnException(schema, outcome.exc)
    ELSE Returns(<<"result", outcome.result>>)

\* Consensus.invoke, given how self._agent.invoke ended
ConsensusInvoke(schema, outcome) ==
    IF TryBody(schema, outcome).st = "raised"
    THEN OnException(schema, TryBody(schema, outcome).exc)
    ELSE TryBody(schema, outcome)

-----------------------------------------------------------------------------
(* A direct caller of RunLLM (tests/test_run_llm.py) *)

InitRunLLM ==
    /\ models \in ModelLists
    /\ response_schema = NoSchema
    /\ run_limit = 0
    /\ rl = NoRunLLM
    /\ rounds = <<>>
    /\ log = {}
    /\ pc = "unused"
    /\ run_count = 0
    /\ messages = <<>>
    /\ terminal = "none"
    /\ agent_out = NoOutcome
    /\ ret = NoReturn
    /\ dispatched = 0
    /\ exceeded_before = FALSE
    /\ trigger_tokens = 0
    /\ keep_messages = 0
    /\ before = <<>>
    /\ changed = <<>>

\* consensus = RunLLM(models=models, system_message=...)
RConstruct ==
    /\ rl.st = "new"
    /\ rl' = RunLLMInit(models)
    /\ UNCHANGED <<sumVars, exceeded_before, models, rounds, log, runVars>>

\* result = consensus.invoke(prompt): the graph starts every model node
RInvoke ==
    /\ rl.st = "ready"
    /\ rounds = <<>>
    /\ Cardinality(log) < MaxInvokes
    /\ rounds' = <<NewRound(models)>>
    /\ UNCHANGED <<sumVars, exceeded_before, models, rl, log, runVars>>

RNodeReturn ==
    /\ rl.st = "ready"
    /\ \E i \in DOMAIN models, content \in Contents : NodeReturn(1, i, content)
    /\ UNCHANGED <<sumVars, exceeded_before, models, rl, log, runVars>>

RNodeRaise ==
    /\ rl.st = "ready"
    /\ \E i \in DOMAIN models : NodeRaise(1, i)
    /\ UNCHANGED <<sumVars, exceeded_before, models, rl, log, runVars>>

RProcess ==
    /\ rl.st = "ready"
    /\ ProcessNode(1)
    /\ UNCHANGED <<sumVars, exceeded_before, models, rl, log, runVars>>

\* RunLLM.invoke hands back result["result"], or the graph's exception
RReturn ==
    /\ rl.st = "ready"
    /\ Len(rounds) = 1
    /\ rounds[1].st \in {"done", "raised"}
    /\ log' = log \cup {rounds[1]}
    /\ rounds' = <<>>
    /\ UNCHANGED <<sumVars, exceeded_before, models, rl, runVars>>

NextRunLLM ==
    \/ RConstruct
    \/ RInvoke
    \/ RNodeReturn
    \/ RNodeRaise
    \/ RProcess
    \/ RReturn

SpecRunLLM == InitRunLLM /\ [][NextRunLLM]_vars

-----------------------------------------------------------------------------
(* RunLLM with two models whose agents return content of every shape *)

ShapeModels == <<id_ab, id_cd>>

InitShapes ==
    /\ InitRunLLM
    /\ models = ShapeModels

SNodeReturn ==
    /\ rl.st = "ready"
    /\ \E i \in DOMAIN models, content \in Shapes : NodeReturn(1, i, content)
    /\ UNCHANGED <<sumVars, exceeded_before, models, rl, log, runVars>>

NextShapes ==
    \/ RConstruct
    \/ RInvoke
    \/ SNodeReturn
    \/ RProcess
    \/ RReturn

SpecShapes == InitShapes /\ [][NextShapes]_vars

-----------------------------------------------------------------------------
(* RunLLM with a model backend that may never answer *)

\* the backend of model node i never answers: agent.invoke is called without
\* a timeout and does not come back
NodeStall(r, i) ==
    /\ r \in DOMAIN rounds
    /\ rounds[r].st = "running"
    /\ i \in DOMAIN rounds[r].task
    /\ rounds[r].task[i] = "running"
    /\ rounds' = [rounds EXCEPT ![r].task[i] = "stalled"]

RStall ==
    /\ rl.st = "ready"
    /\ \E i \in DOMAIN models : NodeStall(1, i)
    /\ UNCHANGED <<sumVars, exceeded_before, models, rl, log, runVars>>

NextStall ==
    \/ RConstruct
    \/ RInvoke
    \/ RNodeReturn
    \/ RNodeRaise
    \/ RStall
    \/ RProcess
    \/ RReturn

\* every step that stays possible is taken: each model node gets its outcome
\* (an answer, an exception, or a backend that never answers), the graph runs
\* process once every model node has returned, and invoke returns once the
\* graph has ended
FairSpecRunLLM ==
    /\ InitShapes
    /\ [][NextStall]_vars
    /\ WF_vars(RConstruct)
    /\ WF_vars(RNodeReturn \/ RNodeRaise \/ RStall)
    /\ WF_vars(RProcess)
    /\ WF_vars(RReturn)

-----------------------------------------------------------------------------
(* ToolCallLimitMiddleware(tool_name="run_llms", run_limit, exit_behavior="error") *)

\* a limit that lets one call too many through
WouldExceedLimitLate(run_calls, limit) == run_calls > limit

\* would one more run_llms call exceed the run limit
WouldExceedLimit(run_calls, limit) == run_calls + 1 > limit

\* of k run_llms calls in one AI message, taken in order, how many are allowed
RECURSIVE AllowedCalls(_, _, _)
AllowedCalls(k, run_calls, limit) ==
    IF k = 0 THEN 0
    ELSE IF WouldExceedLimit(run_calls, limit)
         THEN AllowedCalls(k - 1, run_calls, limit)
         ELSE 1 + AllowedCalls(k - 1, run_calls + 1, limit)

BlockedCalls(k, run_calls, limit) == k - AllowedCalls(k, run_calls, limit)

\* a count that advances once per AI message, however many calls it carries
RunCountAfterPerMessage(k, run_calls, limit) == run_calls + 1

\* the run count written back after an AI message with k run_llms calls:
\* one more for each allowed call
RunCountAfter(k, run_calls, limit) == run_calls + AllowedCalls(k, run_calls, limit)

-----------------------------------------------------------------------------
(* SummarizationMiddleware(trigger=("tokens", n), keep=("messages", k)):
   its before_model hook on the judge agent's transcript. Here a message is a
   record of its kind and its token count. *)

Msg(kind, tokens) == [kind |-> kind, tokens |-> tokens]

\* token_counter(messages)
RECURSIVE Tokens(_)
Tokens(msgs) ==
    IF msgs = <<>> THEN 0 ELSE msgs[1].tokens + Tokens(Tail(msgs))

\* a trigger that fires whatever the size
ShouldSummarizeAlways(msgs, trigger) == TRUE

\* trigger=("tokens", n): the total has reached n
ShouldSummarize(msgs, trigger) == Tokens(msgs) >= trigger

\* keep=("messages", k): how many messages to summarize to keep the last k
TargetCutoff(msgs, keep) == IF Len(msgs) <= keep THEN 0 ELSE Len(msgs) - keep

\* cutting before message c + 1 does not part a tool result from the AI
\* message that asked for it
SafeCutoffPoint(msgs, c) == c >= Len(msgs) \/ msgs[c + 1].kind # "tool"

\* the cutoff moved to a safe point: depending on the release of the library,
\* back to the AI message of the tool results it fell among, or forward past
\* them
SafeCutoffs(msgs, keep) ==
    LET target == TargetCutoff(msgs, keep)
        back   == {c \in 0..target : SafeCutoffPoint(msgs, c)}
        forth  == {c \in target..Len(msgs) : SafeCutoffPoint(msgs, c)}
    IN  IF target = 0 THEN {0}
        ELSE {CHOOSE c \in back : \A d \in back : d <= c,
              CHOOSE c \in forth : \A d \in forth : c <= d}

\* does before_model replace the transcript
Summarizes(msgs, trigger, cutoff) == ShouldSummarize(msgs, trigger) /\ cutoff > 0

\* the transcript before_model leaves: one summary message in place of the
\* first cutoff messages, then the preserved messages as they were
BeforeModelResult(msgs, trigger, cutoff, summary_tokens) ==
    IF Summarizes(msgs, trigger, cutoff)
    THEN <<Msg("summary", summary_tokens)>> \o SubSeq(msgs, cutoff + 1, Len(msgs))
    ELSE msgs

agentVars == <<models, response_schema, run_limit, rl, rounds, log, pc,
               run_count, terminal, agent_out, ret, dispatched, exceeded_before>>

InitCompact ==
    /\ models = ShapeModels
    /\ response_schema = NoSchema
    /\ run_limit = 1
    /\ rl = NoRunLLM
    /\ rounds = <<>>
    /\ log = {}
    /\ pc = "awaiting"
    /\ run_count = 0
    /\ \E t \in 1..MaxTokens : messages = <<Msg("human", t)>>
    /\ terminal = "none"
    /\ agent_out = NoOutcome
    /\ ret = NoReturn
    /\ dispatched = 0
    /\ exceeded_before = FALSE
    /\ trigger_tokens \in 1..MaxTrigger
    /\ keep_messages \in 1..MaxKeep
    /\ before = <<>>
    /\ changed = <<>>

\* the hook runs on the transcript as it stands
BeforeModel ==
    /\ Len(changed) < MaxPasses
    /\ \E cutoff \in SafeCutoffs(messages, keep_messages), s \in 1..MaxTokens :
        /\ messages' = BeforeModelResult(messages, trigger_tokens, cutoff, s)
        /\ changed' = Append(changed, Summarizes(messages, trigger_tokens, cutoff))
    /\ before' = messages
    /\ UNCHANGED <<agentVars, trigger_tokens, keep_messages>>

\* the judge asks for k run_llms calls and the tool node appends their results
AgentTurn ==
    /\ \E k \in 1..MaxCallsPerStep, t \in 1..MaxTokens :
        /\ Len(messages) + 1 + k <= MaxTurns
        /\ messages' = messages \o <<Msg("ai", 1)>> \o [n \in 1..k |-> Msg("tool", t)]
    /\ before' = <<>>
    /\ changed' = <<>>
    /\ UNCHANGED <<agentVars, trigger_tokens, keep_messages>>

NextCompact ==
    \/ BeforeModel
    \/ AgentTurn

SpecCompact == InitCompact /\ [][NextCompact]_vars

-----------------------------------------------------------------------------
(* Consensus: the judge agent and its run_llms tool *)

ConsensusContents == {PyStr(<<"x">>)}

\* the judge's structured answer: one value per field of the schema
JudgeValue(type) ==
    IF type = "bool" THEN PyTrue
    ELSE IF type = "str" THEN PyStr(<<"answer">>)
    ELSE PyInt

StructuredResponse(schema) ==
    <<"structured", [i \in DOMAIN schema.fields |->
                        <<schema.fields[i][1], JudgeValue(schema.fields[i][2])>>]>>

\* the dict self._agent.invoke returns
AgentResult(msgs, schema, structured) ==
    IF structured
    THEN << <<"messages", <<"list", msgs>>>>,
            <<"structured_response", StructuredResponse(schema)>> >>
    ELSE << <<"messages", <<"list", msgs>>>> >>

\* the run_llms tool body: RunLLM(models=self.models, ...) then invoke(query)
ToolRound(ms) ==
    IF RunLLMInit(ms).st = "ready" THEN NewRound(ms)
    ELSE FailedRound(ms, <<RunLLMInit(ms).st>>)

\* what is left of a round once run_llm.invoke(query) has returned its text
ToolResult(round) == [round EXCEPT !.task = [i \in DOMAIN @ |-> "done"],
                                   !.outcome = [i \in DOMAIN @ |-> Pending],
                                   !.model_outputs = <<>>]

Init ==
    /\ models \in ModelLists
    /\ response_schema \in Schemas \cup {NoSchema}
    /\ run_limit \in 1..MaxRunLimit
    /\ rl = NoRunLLM
    /\ rounds = <<>>
    /\ log = {}
    /\ pc = "new"
    /\ run_count = 0
    /\ messages = <<>>
    /\ terminal = "none"
    /\ agent_out = NoOutcome
    /\ ret = NoReturn
    /\ dispatched = 0
    /\ exceeded_before = FALSE
    /\ trigger_tokens = 0
    /\ keep_messages = 0
    /\ before = <<>>
    /\ changed = <<>>

\* Consensus.__init__: the state of the object, or the error raised
Construct(ms) ==
    IF Len(ms) = 0 THEN "ValueError"
    ELSE IF Len(ms) < 2 THEN "ValueError"
    ELSE "constructed"

CConstruct ==
    /\ pc = "new"
    /\ pc' = Construct(models)
    /\ UNCHANGED <<sumVars, exceeded_before, models, response_schema, run_limit, rl, rounds, log,
                   run_count, messages, terminal, agent_out, ret, dispatched>>

\* an invoke that carries the run count of the previous run over, as a
\* checkpointed thread would
CInvokeKeepsCount ==
    /\ pc \in {"constructed", "done"}
    /\ pc' = "awaiting"
    /\ messages' = <<"human">>
    /\ terminal' = "none"
    /\ agent_out' = NoOutcome
    /\ ret' = NoReturn
    /\ rounds' = <<>>
    /\ exceeded_before' = (exceeded_before \/ terminal = "BudgetExceeded")
    /\ UNCHANGED <<sumVars, models, response_schema, run_limit, rl, log,
                   run_count, dispatched>>

\* Consensus.invoke(prompt) calls self._agent.invoke with a fresh state
CInvoke ==
    /\ pc \in {"constructed", "done"}
    /\ pc' = "awaiting"
    /\ run_count' = 0
    /\ messages' = <<"human">>
    /\ terminal' = "none"
    /\ agent_out' = NoOutcome
    /\ ret' = NoReturn
    /\ dispatched' = 0
    /\ rounds' = <<>>
    /\ exceeded_before' = (exceeded_before \/ terminal = "BudgetExceeded")
    /\ UNCHANGED <<sumVars, models, response_schema, run_limit, rl, log>>

\* the agent run has ended: Consensus.invoke's try/except shapes the outcome
Finish(how, outcome) ==
    /\ pc' = "done"
    /\ terminal' = how
    /\ agent_out' = outcome
    /\ ret' = ConsensusInvoke(response_schema, outcome)
    /\ rounds' = <<>>

\* the judge answers without a tool call; with a response_format its
\* structured answer may or may not be there
JudgeFinal ==
    /\ pc = "awaiting"
    /\ \E structured \in BOOLEAN :
        /\ structured => response_schema.kind # "None"
        /\ messages' = Append(messages, "ai")
        /\ Finish("FinalAnswer",
                  AgentReturned(AgentResult(messages', response_schema, structured)))
    /\ UNCHANGED <<sumVars, exceeded_before, models, response_schema, run_limit, rl, log, run_count, dispatched>>

\* the judge asks for k run_llms calls in one AI message and the middleware's
\* after_model hook lets all of them through: the tool node starts them
JudgeToolCalls ==
    /\ pc = "awaiting"
    /\ \E k \in 1..MaxCallsPerStep :
        /\ BlockedCalls(k, run_count, run_limit) = 0
        /\ run_count' = RunCountAfter(k, run_count, run_limit)
        /\ messages' = Append(messages, "ai")
        /\ rounds' = [r \in 1..k |-> ToolRound(models)]
        /\ dispatched' = dispatched + k
    /\ pc' = "tools"
    /\ UNCHANGED <<sumVars, exceeded_before, models, response_schema, run_limit, rl, log, terminal,
                   agent_out, ret>>

\* some of the k calls are over the limit: exit_behavior="error" raises
\* ToolCallLimitExceededError before the tool node runs
JudgeOverLimit ==
    /\ pc = "awaiting"
    /\ \E k \in 1..MaxCallsPerStep :
        /\ BlockedCalls(k, run_count, run_limit) > 0
        /\ messages' = Append(messages, "ai")
        /\ Finish("BudgetExceeded", AgentRaised("ToolCallLimitExceededError"))
    /\ UNCHANGED <<sumVars, exceeded_before, models, response_schema, run_limit, rl, log, run_count, dispatched>>

\* the judge model call itself raises
JudgeFail ==
    /\ pc = "awaiting"
    /\ Finish("JudgeFailed", AgentRaised("JudgeError"))
    /\ UNCHANGED <<sumVars, exceeded_before, models, response_schema, run_limit, rl, log, run_count,
                   messages, dispatched>>

CNodeReturn ==
    /\ pc = "tools"
    /\ \E r \in DOMAIN rounds, i \in DOMAIN models, content \in ConsensusContents :
            NodeReturn(r, i, content)
    /\ UNCHANGED <<sumVars, exceeded_before, models, rl, log, runVars>>

CNodeRaise ==
    /\ pc = "tools"
    /\ \E r \in DOMAIN rounds, i \in DOMAIN models : NodeRaise(r, i)
    /\ UNCHANGED <<sumVars, exceeded_before, models, rl, log, runVars>>

\* process runs and RunLLM.invoke returns the aggregated text to the tool
CProcess ==
    /\ pc = "tools"
    /\ \E r \in DOMAIN rounds :
        /\ rounds[r].st = "running"
        /\ \A i \in DOMAIN rounds[r].task : rounds[r].task[i] = "done"
        /\ rounds' = [rounds EXCEPT ![r] = ToolResult(AfterProcess(models, rounds[r]))]
    /\ UNCHANGED <<sumVars, exceeded_before, models, rl, log, runVars>>

\* back to the judge as soon as one tool call has returned, the others still
\* running
ToolsReturnEarly ==
    /\ pc = "tools"
    /\ \E r \in DOMAIN rounds : rounds[r].st = "done"
    /\ messages' = Append(messages, "tool")
    /\ rounds' = SelectSeq(rounds, LAMBDA x : x.st # "done")
    /\ pc' = "awaiting"
    /\ UNCHANGED <<sumVars, exceeded_before, models, response_schema, run_limit, rl, log, run_count,
                   terminal, agent_out, ret, dispatched>>

\* every tool call returned: one tool message each, back to the judge
ToolsReturn ==
    /\ pc = "tools"
    /\ \A r \in DOMAIN rounds : rounds[r].st = "done"
    /\ messages' = messages \o [r \in DOMAIN rounds |-> "tool"]
    /\ rounds' = <<>>
    /\ pc' = "awaiting"
    /\ UNCHANGED <<sumVars, exceeded_before, models, response_schema, run_limit, rl, log, run_count,
                   terminal, agent_out, ret, dispatched>>

\* a tool call raised: the tool node re-raises it out of the agent
ToolsRaise ==
    /\ pc = "tools"
    /\ \E r \in DOMAIN rounds :
        /\ rounds[r].st = "raised"
        /\ Finish("RoundFailed", AgentRaised(rounds[r].exc[1]))
    /\ UNCHANGED <<sumVars, exceeded_before, models, response_schema, run_limit, rl, log, run_count,
                   messages, dispatched>>

Next ==
    \/ CConstruct
    \/ CInvoke
    \/ JudgeFinal
    \/ JudgeToolCalls
    \/ JudgeOverLimit
    \/ JudgeFail
    \/ CNodeReturn
    \/ CNodeRaise
    \/ CProcess
    \/ ToolsReturn
    \/ ToolsRaise

Spec == Init /\ [][Next]_vars

-----------------------------------------------------------------------------
(* Properties of the scatter-gather executor, checked under SpecRunLLM *)

\* the rounds whose outcome a caller of RunLLM.invoke has seen or is about to see
Settled == log \cup {rounds[r] : r \in {q \in DOMAIN rounds : rounds[q].st \in {"done", "raised"}}}

\* the keys of model_outputs in insertion order: the order the nodes finished in
ArrivalOrder(round) == [i \in DOMAIN round.model_outputs |-> round.model_outputs[i][1]]

\* the flat text each content of Contents stands for
ExpectedText(content) == IF content = PyStr(<<"x">>) THEN <<"x">> ELSE <<"y">>

\* C1: for a fixed model list and fixed per-model outcomes the aggregated text
\* is the same whatever order the parallel model nodes finished in: any two
\* rounds of the same RunLLM object whose nodes returned the same contents
\* produced the same result.
C1_AggregateIgnoresCompletionOrder ==
    \A e1, e2 \in Settled :
        (e1.st = "done" /\ e2.st = "done" /\ e1.outcome = e2.outcome)
            => e1.result = e2.result

C1_Witness ==
    /\ Len(models) = 3
    /\ \E e1, e2 \in log :
        /\ e1.st = "done" /\ e2.st = "done"
        /\ e1.outcome = e2.outcome
        /\ ArrivalOrder(e1) # ArrivalOrder(e2)
        /\ e1.result = e2.result

\* C3: if exactly one of N >= 2 model invocations of a round raises, RunLLM.invoke
\* does not raise and the aggregated result still has N labelled entries.
C3_OneFailureStillAggregates ==
    \A e \in Settled :
        (Len(models) >= 2
         /\ Cardinality({i \in DOMAIN e.outcome : e.outcome[i] = Raised}) = 1)
            => (e.st = "done" /\ Len(e.result) = 4 * Len(models) - 1)

\* C6: constructing Consensus or RunLLM with 0 or 1 model identifiers fails
\* with a configuration error before any agent is created.
C6_FewerThanTwoModelsRejected ==
    /\ (rl.st # "new" /\ Len(models) < 2) => (rl.st = "ValueError" /\ rl.created = 0)
    /\ (pc \notin {"new", "unused"} /\ Len(models) < 2) => pc = "ValueError"

AllRounds == log \cup {rounds[r] : r \in DOMAIN rounds}

\* C11: in a round the process node runs at most once, only when every model
\* node has returned, and exactly once in a round that returns; until then no
\* aggregated result exists; each outcome slot holds the text of the node of
\* its own identifier and is written once.
C11_ProcessOnceAfterAllNodes ==
    \A e \in AllRounds :
        /\ e.runs <= 1
        /\ (e.st = "done") <=> (e.runs = 1)
        /\ e.runs > 0 => \A i \in DOMAIN e.task : e.task[i] = "done"
        /\ e.st # "done" => e.result = <<>>
        /\ Len(e.model_outputs) = Cardinality({i \in DOMAIN e.task : e.task[i] = "done"})
        /\ \A k \in DOMAIN e.model_outputs :
            \E i \in DOMAIN e.task :
                /\ models[i] = e.model_outputs[k][1]
                /\ e.task[i] = "done"
                /\ e.model_outputs[k][2] = PyStr(ExpectedText(e.outcome[i]))

C11_Witness ==
    /\ Len(models) = 3
    /\ \E e \in log : e.st = "done" /\ e.runs = 1 /\ ArrivalOrder(e) # models
    /\ Len(rounds) = 1
    /\ rounds[1].st = "running"
    /\ rounds[1].result = <<>>
    /\ Cardinality({i \in DOMAIN models : rounds[1].task[i] = "done"}) = 2

-----------------------------------------------------------------------------
(* Properties of the supervisor run, checked under Spec *)

Failed == pc = "done" /\ terminal \in {"BudgetExceeded", "RoundFailed", "JudgeFailed"}

FieldNames(schema) == {schema.fields[i][1] : i \in DOMAIN schema.fields}

FieldType(schema, key) ==
    schema.fields[CHOOSE i \in DOMAIN schema.fields : schema.fields[i][1] = key][2]

\* C2: a run never starts more than run_limit run_llms executions, the
\* middleware's counter is the number started, and a step that ends the run
\* in BudgetExceeded starts none.
C2_BudgetNeverExceeded ==
    /\ [](dispatched <= run_limit /\ run_count = dispatched
          /\ Len(rounds) <= run_limit)
    /\ [][terminal' = "BudgetExceeded" =>
            (dispatched' = dispatched /\ rounds = <<>> /\ rounds' = <<>>)]_vars

C2_Witness ==
    /\ terminal = "BudgetExceeded"
    /\ run_limit = MaxRunLimit
    /\ dispatched = run_limit

\* C4: whatever the judge decides, a supervisor run over a model list the
\* executor accepts ends in FinalAnswer or in BudgetExceeded.
C4_EndsInFinalAnswerOrBudgetExceeded ==
    (pc = "done" /\ terminal # "JudgeFailed" /\ RunLLMInit(models).st = "ready")
        => terminal \in {"FinalAnswer", "BudgetExceeded"}

\* C5: Consensus.invoke never raises: when the agent run raised (limit error,
\* failed round, failed judge call) or gave no structured output although a
\* schema is configured, the caller gets the default result (a dict of
\* defaults or None).
C5_InvokeNeverRaises ==
    pc = "done" =>
        /\ ret.st = "returned"
        /\ (agent_out.raised
            \/ (response_schema.kind # "None"
                /\ ~DictHas(agent_out.result, "structured_response")))
                => ret.val[1] \in {"dict", "NoneType"}

C5_Witness ==
    /\ pc = "done"
    /\ terminal = "RoundFailed"
    /\ agent_out.raised
    /\ ret.st = "returned"

\* C7: with a schema class configured (TypedDict or Pydantic model), a failed
\* run returns a record whose keys are exactly the schema's fields.
C7_DefaultHasExactlySchemaKeys ==
    (Failed /\ response_schema.kind \in {"TypedDict", "BaseModel"})
        => /\ ret.st = "returned"
           /\ ret.val[1] = "dict"
           /\ DictKeys(ret.val[2]) = FieldNames(response_schema)

\* C8: in the default result every boolean field is False, every string field
\* is a message naming the failure and every other field is None.
C8_DefaultValueFollowsDeclaredType ==
    (Failed /\ ret.st = "returned" /\ ret.val[1] = "dict")
        => \A i \in DOMAIN ret.val[2] :
            LET key == ret.val[2][i][1]
                value == ret.val[2][i][2]
                type == FieldType(response_schema, key)
            IN  /\ type = "bool" => value = PyFalse
                /\ type = "str" => value = PyStr(<<"Error occurred: ", agent_out.exc>>)
                /\ type \notin {"bool", "str"} => value = PyNone

\* C10: on FinalAnswer the caller gets the judge's structured response when a
\* schema is configured and the whole agent result otherwise; a failed run
\* without a schema gives None.
C10_FinalizerReturnsAnswerOrNone ==
    pc = "done" =>
        /\ (terminal = "FinalAnswer" /\ response_schema.kind # "None"
            /\ DictHas(agent_out.result, "structured_response"))
                => ret = Returns(StructuredResponse(response_schema))
        /\ (terminal = "FinalAnswer" /\ response_schema.kind = "None")
                => ret = Returns(<<"result", << <<"messages", <<"list", messages>>>> >> >>)
        /\ (terminal # "FinalAnswer" /\ response_schema.kind = "None")
                => ret = Returns(PyNone)

C10_Witness ==
    /\ pc = "done"
    /\ terminal = "FinalAnswer"
    /\ response_schema = UserSchema
    /\ dispatched > 0
    /\ ret.val[1] = "structured"

\* C12: the budget counter moves by exactly one for each run_llms call that is
\* allowed to proceed, also when one decision step carries several calls, and
\* changes at no other step of a run (a new run starts again from the full
\* budget); the remaining budget run_limit - run_count is never negative.
C12_CounterStepsOncePerAllowedCall ==
    /\ [](run_count \in 0..run_limit)
    /\ [][((pc = "awaiting" /\ pc' = "tools") =>
              (/\ Len(rounds') \in 1..MaxCallsPerStep
               /\ run_limit - run_count' = (run_limit - run_count) - Len(rounds')))
           /\ ((run_count' # run_count) =>
                 (\/ (pc = "awaiting" /\ pc' = "tools")
                  \/ (pc \in {"constructed", "done"} /\ pc' = "awaiting"
                                                      /\ run_count' = 0)))]_vars

C12_Witness ==
    /\ pc = "tools"
    /\ Len(rounds) = 2
    /\ Len(messages) = 2
    /\ run_count = 2
    /\ run_limit = 2

\* the rounds that have started and have neither returned nor raised
InFlight == {r \in DOMAIN rounds : rounds[r].st = "running"}

\* C13 as stated: at most one scatter-gather round is in flight at any time.
C13_AtMostOneRoundInFlight == Cardinality(InFlight) <= 1

\* C13 amended: the rounds in flight all belong to the judge's latest decision
\* step, one per run_llms call of that step; the judge takes no further
\* decision, and the budget refuses nothing, while any of them is in flight;
\* the supervisor resumes only when all of them have returned, with one tool
\* message per round.
C13_RoundsOfOneStepSettleBeforeNextDecision ==
    /\ [](rounds # <<>> => (pc = "tools" /\ messages[Len(messages)] = "ai"))
    /\ [][(Len(messages') > Len(messages) /\ messages'[Len(messages')] = "ai")
              => rounds = <<>>]_vars
    /\ [][(terminal' = "BudgetExceeded" /\ terminal # "BudgetExceeded")
              => InFlight = {}]_vars
    /\ [][(pc = "tools" /\ pc' = "awaiting")
              => (/\ \A r \in DOMAIN rounds : rounds[r].st = "done"
                  /\ Len(messages') = Len(messages) + Len(rounds))]_vars

C13_Witness ==
    /\ pc = "tools"
    /\ Cardinality(InFlight) = 2
    /\ \E r \in InFlight : \E i \in DOMAIN models : rounds[r].task[i] = "done"

-----------------------------------------------------------------------------
(* Liveness of a round, checked under FairSpecRunLLM *)

\* C14: every round that has started eventually settles, also when a backend
\* never answers: its invocation is cut off by the per-model timeout.
C14_EveryRoundEventuallySettles ==
    [](rounds # <<>> => <>(rounds = <<>>))

-----------------------------------------------------------------------------
(* Output-shape normalization, checked under SpecShapes *)

\* C15: whatever shape of content the agents return, no model node raises
\* while extracting the text, and every outcome slot holds one flat text value.
C15_NormalizationNeverRaisesAndYieldsText ==
    \A e \in AllRounds :
        /\ e.exc # <<"AttributeError">>
        /\ \A k \in DOMAIN e.model_outputs : e.model_outputs[k][2][1] = "str"

-----------------------------------------------------------------------------
(* Successive runs of one Consensus object, checked under Spec *)

\* the tool results in the transcript of the current run
ToolMessages == {n \in DOMAIN messages : messages[n] = "tool"}

\* C18: every Consensus.invoke on the same object starts with the full call
\* budget, a transcript holding only the prompt and no round; every round it
\* starts is a fresh one; and during a run the budget consumed is exactly
\* that of the rounds of this run, whatever earlier runs did, including
\* earlier runs that ended by exceeding the budget.
C18_EachRunStartsFresh ==
    /\ [][(pc \in {"constructed", "done"} /\ pc' = "awaiting")
              => (/\ run_count' = 0
                  /\ dispatched' = 0
                  /\ messages' = <<"human">>
                  /\ rounds' = <<>>)]_vars
    /\ [][(pc = "awaiting" /\ pc' = "tools")
              => \A r \in DOMAIN rounds' : rounds'[r] = ToolRound(models)]_vars
    /\ [](pc \in {"awaiting", "tools"}
              => run_count = Cardinality(ToolMessages) + Len(rounds))

C18_Witness ==
    /\ exceeded_before
    /\ pc = "tools"
    /\ run_limit = 2
    /\ run_count = run_limit
    /\ Cardinality(ToolMessages) = 1

-----------------------------------------------------------------------------
(* Invocation units of an accepted identifier list, checked under Spec *)

\* C19: once Consensus has accepted its identifier list, every round a
\* run_llms call starts has one invocation unit per list entry: the node
\* names and the identifiers are pairwise distinct, the agent slots are as
\* many as the entries, and the graph is built without a name clash.
C19_AcceptedListHasOneUnitPerEntry ==
    \A r \in DOMAIN rounds :
        pc = "tools" =>
            /\ \A i, j \in DOMAIN models :
                    i # j => (/\ models[i] # models[j]
                              /\ Sanitize(models[i]) # Sanitize(models[j]))
            /\ Len(AgentsOf(models, Len(models))) = Len(models)
            /\ rounds[r].exc # <<"ValueError">>

-----------------------------------------------------------------------------
(* Compaction of the judge's transcript, checked under SpecCompact *)

\* the latest before_model pass replaced the transcript
Compacted == changed # <<>> /\ changed[Len(changed)]

\* the last k messages of a transcript (all of it if shorter)
LastTurns(msgs, k) ==
    IF Len(msgs) <= k THEN msgs ELSE SubSeq(msgs, Len(msgs) - k + 1, Len(msgs))

\* C16: when a pass compacts a transcript that starts with the user's turn,
\* the compacted transcript still starts with that turn and ends with the
\* same last K turns.
C16_CompactionKeepsFirstTurnAndLastK ==
    (Compacted /\ before[1].kind = "human") =>
        /\ messages[1] = before[1]
        /\ LastTurns(messages, keep_messages) = LastTurns(before, keep_messages)

=============================================================================
